---- MODULE Spec2Model ----
(***************************************************************************)
(* Model of src/config.ts of sql-formatter-vscode: the configuration       *)
(* validator (validateConfig, validateParams, validateParamTypes), the     *)
(* configuration assembler (createConfig, createIndentationConfig) and the *)
(* external configuration loader (getConfigFromPath).                      *)
(*                                                                         *)
(* Three specifications share the variables:                               *)
(*   ValidateSpec  validateConfig applied to a bounded set of records      *)
(*   CreateSpec    createConfig applied to bounded settings / preferences  *)
(*   Spec          concurrent getConfigFromPath calls over a file system   *)
(***************************************************************************)
EXTENDS Integers, Sequences, FiniteSets, TLC

VARIABLES
    cfg,                \* validateConfig: the record it is applied to
    validation,         \* validateConfig: its outcome (Pending before the call)
    extensionSettings,  \* createConfig: the settings source (name -> value)
    formattingOptions,  \* createConfig: ambient preferences (tabSize, insertSpaces)
    detectedDialect,    \* createConfig: the dialect detected by the caller
    assembled,          \* createConfig: the record it returned (Pending before)
    fs,                 \* getConfigFromPath: path -> state of the file
    pc,                 \* getConfigFromPath: call -> "idle" | "awaiting" | "done"
    configFilePath,     \* getConfigFromPath: call -> its argument
    result,             \* getConfigFromPath: call -> value its promise resolved to
    notifications,      \* vscode.window.showErrorMessage calls, in order
    console             \* console.warn calls, in order

validateVars == <<cfg, validation>>
createVars   == <<extensionSettings, formattingOptions, detectedDialect, assembled>>
loaderVars   == <<fs, pc, configFilePath, result, notifications, console>>
vars == <<cfg, validation, extensionSettings, formattingOptions, detectedDialect,
          assembled, fs, pc, configFilePath, result, notifications, console>>

(***************************************************************************)
(* Bounds of the model.                                                    *)
(***************************************************************************)
MaxRetired == 2     \* retired keys present in one record
MaxWidth == 2       \* expressionWidth ranges over -MaxWidth..MaxWidth
MaxListLen == 2     \* length of params lists and of paramTypes.custom
MaxTabSize == 2     \* tab sizes range over 1..MaxTabSize
MaxOtherSettings == 1   \* style settings (keywordCase, ...) set at once
NumCalls == 2       \* concurrent getConfigFromPath calls

(***************************************************************************)
(* JavaScript / JSON values, tagged by their typeof-like type.             *)
(***************************************************************************)
Undefined == [type |-> "undefined"]
JNull == [type |-> "null"]
JBool(b) == [type |-> "boolean", b |-> b]
JNum(n) == [type |-> "number", n |-> n]
JStr(s) == [type |-> "string", s |-> s]
JArr(items) == [type |-> "array", items |-> items]
JObj(fields) == [type |-> "object", fields |-> fields]

Pending == [type |-> "pending"]

\* JavaScript truthiness (the conditions of lines 32, 38, 42, 59, 95).
Truthy(v) ==
    CASE v.type = "undefined" -> FALSE
      [] v.type = "null" -> FALSE
      [] v.type = "boolean" -> v.b
      [] v.type = "number" -> v.n # 0
      [] v.type = "string" -> v.s # ""
      [] OTHER -> TRUE

\* Property read obj.key: undefined when the key is missing.
Get(obj, key) ==
    IF obj.type = "object" /\ key \in DOMAIN obj.fields
    THEN obj.fields[key]
    ELSE Undefined

\* `${n}` of a number.
NumberToString(v) == ToString(v.n)

(***************************************************************************)
(* Errors and the outcome of a call: it returns a value or throws an       *)
(* error, having written `console` (console.warn lines) before.            *)
(***************************************************************************)
ConfigError(message) == [class |-> "ConfigError", message |-> message]
TypeError(message) == [class |-> "TypeError", message |-> message]
SyntaxError(message) == [class |-> "SyntaxError", message |-> message]
FileSystemError(message) == [class |-> "FileSystemError", message |-> message]

Return(value, warned) == [kind |-> "return", value |-> value, console |-> warned]
Throw(error, warned) == [kind |-> "throw", error |-> error, console |-> warned]

\* `${error}`: Error.prototype.toString.
ErrorToString(error) == error.class \o ": " \o error.message

(***************************************************************************)
(* validateConfig (lines 16-49).                                           *)
(***************************************************************************)
removedOptions ==
    << "multilineLists", "newlineBeforeOpenParen", "newlineBeforeCloseParen",
       "aliasAs", "commaPosition", "tabulateAlias" >>

\* The `in` operator throws a TypeError on a value that is not an object.
InThrows(obj) == obj.type \notin {"object", "array"}

InTruthy(optionName, obj) == Truthy(Get(obj, optionName))

\* optionName in cfg (line 27), on an object or an array.
In(optionName, obj) ==
    obj.type = "object" /\ optionName \in DOMAIN obj.fields

\* The loop of lines 26-30 from index i on: the index of the first removed
\* option the record contains, 0 when the loop ends without a throw.
RECURSIVE FirstRemovedOption(_, _)
FirstRemovedOption(c, i) ==
    IF i > Len(removedOptions) THEN 0
    ELSE IF In(removedOptions[i], c) THEN i
    ELSE FirstRemovedOption(c, i + 1)

\* The condition of line 32.
ExpressionWidthRejected(c) ==
    LET w == Get(c, "expressionWidth") IN Truthy(w) /\ w.n <= 0

\* The values `every` runs over (lines 52-53).
ParamValuesOf(params) ==
    CASE params.type = "array" ->
            {params.items[i] : i \in DOMAIN params.items}
      [] params.type = "object" ->
            {params.fields[k] : k \in DOMAIN params.fields}
      [] OTHER -> {}

validateParamsArraysOnly(params) ==
    params.type = "array" =>
        \A i \in DOMAIN params.items : params.items[i].type = "string"

\* validateParams (lines 51-55).
validateParams(params) ==
    \A p \in ParamValuesOf(params) : p.type = "string"

validateParamTypesFirstOnly(paramTypes) ==
    LET custom == Get(paramTypes, "custom") IN
    IF Truthy(custom) /\ custom.type = "array" /\ Len(custom.items) > 0
    THEN Get(custom.items[1], "regex") # JStr("")
    ELSE TRUE

\* validateParamTypes (lines 57-63).
validateParamTypes(paramTypes) ==
    LET custom == Get(paramTypes, "custom") IN
    IF Truthy(custom) /\ custom.type = "array"
    THEN \A i \in DOMAIN custom.items : Get(custom.items[i], "regex") # JStr("")
    ELSE TRUE

ParamsWarning == "WARNING: All \"params\" option values should be strings."

EmptyRegexMessage ==
    "Empty regex given in custom paramTypes. That would result in matching infinite amount of parameters."

ValidateConfig(c) ==
    IF InThrows(c)
    THEN Throw(TypeError("Cannot use 'in' operator to search for a key in a non-object"), <<>>)
    ELSE LET removed == FirstRemovedOption(c, 1) IN
    IF removed # 0
    THEN Throw(ConfigError(removedOptions[removed] \o " config is no more supported."), <<>>)
    ELSE IF ExpressionWidthRejected(c)
    THEN Throw(ConfigError("expressionWidth config must be positive number. Received "
                           \o NumberToString(Get(c, "expressionWidth")) \o " instead."), <<>>)
    ELSE LET params == Get(c, "params")
             warned == IF Truthy(params) /\ ~validateParams(params)
                       THEN <<ParamsWarning>> ELSE <<>>
             paramTypes == Get(c, "paramTypes")
         IN  IF Truthy(paramTypes) /\ ~validateParamTypes(paramTypes)
             THEN Throw(ConfigError(EmptyRegexMessage), warned)
             ELSE Return(c, warned)

(***************************************************************************)
(* The records validateConfig is applied to: FormatOptions-shaped records  *)
(* over the fields the validator reads.                                    *)
(***************************************************************************)
SeqsUpTo(S, n) == UNION {[1..k -> S] : k \in 0..n}

RemovedSet == {removedOptions[i] : i \in DOMAIN removedOptions}

\* Values a retired key may carry; the falsy ones are the interesting ones.
RetiredValues == {JBool(FALSE), JNum(0), JNull, JStr(""), JBool(TRUE)}

RetiredParts(maxKeys) ==
    {[k \in S |-> v] :
        S \in {T \in SUBSET RemovedSet : Cardinality(T) <= maxKeys},
        v \in RetiredValues}

WidthParts(widths) == {<<>>} \cup {"expressionWidth" :> JNum(w) : w \in widths}

ParamValues == {JStr("x"), JNum(1)}
ParamNames == {"p", "q"}

ParamsParts(maxLen) ==
    {<<>>}
    \cup {"params" :> JArr(s) : s \in SeqsUpTo(ParamValues, maxLen)}
    \cup {"params" :> JObj(f) : f \in UNION {[K -> ParamValues] : K \in SUBSET ParamNames}}

Regexes == {"", "a"}

ParamTypesParts(maxLen) ==
    {<<>>, "paramTypes" :> JObj(<<>>)}
    \cup {"paramTypes" :> JObj("custom" :> JArr(s)) :
            s \in SeqsUpTo({JObj("regex" :> JStr(r)) : r \in Regexes}, maxLen)}

Records(maxKeys, widths, maxParams, maxCustom) ==
    {JObj(r @@ w @@ p @@ t) :
        r \in RetiredParts(maxKeys), w \in WidthParts(widths),
        p \in ParamsParts(maxParams), t \in ParamTypesParts(maxCustom)}

Widths(maxWidth) == (-maxWidth)..maxWidth

(***************************************************************************)
(* Idle values of each component's variables.                              *)
(***************************************************************************)
ValidateIdle == cfg = Pending /\ validation = Pending

CreateIdle ==
    /\ extensionSettings = <<>>
    /\ formattingOptions = <<>>
    /\ detectedDialect = Pending
    /\ assembled = Pending

LoaderIdle ==
    /\ fs = <<>>
    /\ pc = <<>>
    /\ configFilePath = <<>>
    /\ result = <<>>
    /\ notifications = <<>>
    /\ console = <<>>

(***************************************************************************)
(* ValidateSpec: validateConfig applied to each record within the bounds.   *)
(***************************************************************************)
ValidateInit ==
    /\ cfg \in Records(MaxRetired, Widths(MaxWidth), MaxListLen, MaxListLen)
    /\ validation = Pending
    /\ CreateIdle
    /\ LoaderIdle

CallValidateConfig ==
    /\ validation = Pending
    /\ validation' = ValidateConfig(cfg)
    /\ UNCHANGED <<cfg, createVars, loaderVars>>

ValidateNext == CallValidateConfig

ValidateSpec == ValidateInit /\ [][ValidateNext]_vars

(***************************************************************************)
(* createConfig and createIndentationConfig (lines 67-106).                *)
(***************************************************************************)
\* extensionSettings.get(name): undefined when the setting is not set.
SettingsGet(settings, name) ==
    IF name \in DOMAIN settings THEN settings[name] ELSE Undefined

\* The ! operator.
Not(v) == JBool(~Truthy(v))

\* An object literal: its entries <<key, value>> in source order, a later
\* entry of a key overwriting an earlier one (as a spread's entries do).
ObjectLiteral(entries) ==
    LET keys == {entries[i][1] : i \in DOMAIN entries}
        last(k) == CHOOSE i \in DOMAIN entries :
                      /\ entries[i][1] = k
                      /\ \A j \in DOMAIN entries : entries[j][1] = k => j <= i
    IN  JObj([k \in keys |-> entries[last(k)][2]])

createIndentationConfigMerged(settings, options) ==
    LET size == SettingsGet(settings, "tabSizeOverride")
        spaces == SettingsGet(settings, "insertSpacesOverride")
    IN  IF Truthy(SettingsGet(settings, "ignoreTabSettings"))
        THEN << <<"tabWidth", IF size = Undefined THEN options.tabSize ELSE size>>,
                <<"useTabs", Not(IF spaces = Undefined THEN options.insertSpaces ELSE spaces)>> >>
        ELSE << <<"tabWidth", options.tabSize>>,
                <<"useTabs", Not(options.insertSpaces)>> >>

\* createIndentationConfig (lines 90-106): the entries of the object returned.
createIndentationConfig(settings, options) ==
    IF Truthy(SettingsGet(settings, "ignoreTabSettings"))
    THEN << <<"tabWidth", SettingsGet(settings, "tabSizeOverride")>>,
            <<"useTabs", Not(SettingsGet(settings, "insertSpacesOverride"))>> >>
    ELSE << <<"tabWidth", options.tabSize>>,
            <<"useTabs", Not(options.insertSpaces)>> >>

AutoDetect == JStr("auto-detect")

ResolveLanguageFallback(configuredDialect, detected) ==
    IF configuredDialect = AutoDetect \/ ~Truthy(configuredDialect)
    THEN detected ELSE configuredDialect

\* The conditional of line 74.
ResolveLanguage(configuredDialect, detected) ==
    IF configuredDialect = AutoDetect THEN detected ELSE configuredDialect

\* The settings copied verbatim, in the order of lines 76-86.
StyleSettings ==
    << "keywordCase", "dataTypeCase", "functionCase", "identifierCase",
       "indentStyle", "logicalOperatorNewline", "expressionWidth",
       "linesBetweenQueries", "denseOperators", "newlineBeforeSemicolon",
       "paramTypes" >>

\* createConfig (lines 67-88).
CreateConfig(settings, options, detected) ==
    ObjectLiteral(
        << <<"language", ResolveLanguage(SettingsGet(settings, "dialect"), detected)>> >>
        \o createIndentationConfig(settings, options)
        \o [i \in DOMAIN StyleSettings |->
               <<StyleSettings[i], SettingsGet(settings, StyleSettings[i])>>])

(***************************************************************************)
(* The inputs createConfig is applied to.                                  *)
(***************************************************************************)
Dialects == {JStr("sql"), JStr("mysql"), JStr("postgresql")}
TabSizes(maxSize) == {JNum(n) : n \in 1..maxSize}
Booleans == {JBool(TRUE), JBool(FALSE)}

Optional(name, values) == {<<>>} \cup {name :> v : v \in values}

\* A value of each style setting.
StyleSample ==
    [keywordCase |-> JStr("upper"), dataTypeCase |-> JStr("lower"),
     functionCase |-> JStr("preserve"), identifierCase |-> JStr("upper"),
     indentStyle |-> JStr("tabularLeft"), logicalOperatorNewline |-> JStr("after"),
     expressionWidth |-> JNum(0), linesBetweenQueries |-> JNum(2),
     denseOperators |-> JBool(TRUE), newlineBeforeSemicolon |-> JBool(FALSE),
     paramTypes |-> JObj("custom" :> JArr(<<JObj("regex" :> JStr(""))>>))]

StyleParts(maxSet) ==
    {[k \in S |-> StyleSample[k]] :
        S \in {T \in SUBSET DOMAIN StyleSample : Cardinality(T) <= maxSet}}

SettingsInputs(maxSize, maxSet) ==
    {d @@ f @@ t @@ s @@ o :
        d \in Optional("dialect", Dialects \cup {AutoDetect}),
        f \in Optional("ignoreTabSettings", Booleans),
        t \in Optional("tabSizeOverride", TabSizes(maxSize)),
        s \in Optional("insertSpacesOverride", Booleans),
        o \in StyleParts(maxSet)}

FormattingOptionsInputs(maxSize) == [tabSize : TabSizes(maxSize), insertSpaces : Booleans]

(***************************************************************************)
(* CreateSpec: createConfig applied to each input.                         *)
(***************************************************************************)
CreateInit ==
    /\ extensionSettings \in SettingsInputs(MaxTabSize, MaxOtherSettings)
    /\ formattingOptions \in FormattingOptionsInputs(MaxTabSize)
    /\ detectedDialect \in Dialects
    /\ assembled = Pending
    /\ ValidateIdle
    /\ LoaderIdle

CallCreateConfig ==
    /\ assembled = Pending
    /\ assembled' = CreateConfig(extensionSettings, formattingOptions, detectedDialect)
    /\ UNCHANGED <<extensionSettings, formattingOptions, detectedDialect,
                   validateVars, loaderVars>>

CreateNext == CallCreateConfig

CreateSpec == CreateInit /\ [][CreateNext]_vars

(***************************************************************************)
(* getConfigFromPath (lines 108-122).                                      *)
(*                                                                         *)
(* A file is missing (or unreadable), or holds text; text is either not    *)
(* JSON or the JSON text of a value.                                       *)
(***************************************************************************)
Missing == [state |-> "missing"]
Malformed == [state |-> "file", syntax |-> "invalid"]
JsonFile(value) == [state |-> "file", syntax |-> "json", value |-> value]

\* vscode.workspace.fs.readFile (line 112): the promise is fulfilled with
\* the file's content or rejected.
ReadFile(files, path) ==
    IF path \in DOMAIN files /\ files[path].state = "file"
    THEN Return(files[path], <<>>)
    ELSE Throw(FileSystemError("Unable to read file '" \o path \o "'"), <<>>)

\* Buffer.from(...).toString('utf8') and JSON.parse (lines 113-114).
JSONParse(content) ==
    IF content.syntax = "json"
    THEN Return(content.value, <<>>)
    ELSE Throw(SyntaxError("Unexpected token in JSON"), <<>>)

\* The body of the try block (lines 112-115) on a file system and a path.
TryBlock(files, path) ==
    LET fileContent == ReadFile(files, path) IN
    IF fileContent.kind = "throw" THEN fileContent
    ELSE LET parsed == JSONParse(fileContent.value) IN
         IF parsed.kind = "throw" THEN parsed
         ELSE ValidateConfig(parsed.value)

CatchesConfigErrorOnly(error) == error.class = "ConfigError"

\* catch (error) (line 116) catches whatever the try block throws.
Catches(error) == TRUE

\* The text of lines 117-119.
ErrorMessage(path, error) ==
    "Unable to read config file from path " \o path \o ":\n" \o ErrorToString(error)

\* What a promise rejected with an error holds.
Rejected(error) == [type |-> "rejected", error |-> error]

Calls == 1..NumCalls
Paths == {"/a.json", "/b.json"}

SharedPath(call) == configFilePath[1]

\* The configFilePath parameter of a call (line 109).
PathOf(call) == configFilePath[call]

\* The documents the files hold.
FileValues ==
    { JNull, JNum(5), JStr("sql"), JArr(<<>>),
      JObj(<<>>),
      JObj("expressionWidth" :> JNum(80)),
      JObj("expressionWidth" :> JNum(0)),
      JObj("expressionWidth" :> JNum(-1)),
      JObj("multilineLists" :> JBool(TRUE)),
      JObj("params" :> JArr(<<JNum(1)>>)),
      JObj("paramTypes" :> JObj("custom" :> JArr(<<JObj("regex" :> JStr(""))>>))),
      JObj("params" :> JArr(<<JNum(1)>>)
           @@ "paramTypes" :> JObj("custom" :> JArr(<<JObj("regex" :> JStr(""))>>))) }

FileStates == {Missing, Malformed} \cup {JsonFile(v) : v \in FileValues}

Init ==
    /\ fs \in [Paths -> FileStates]
    /\ pc = [i \in Calls |-> "idle"]
    /\ configFilePath = [i \in Calls |-> ""]
    /\ result = [i \in Calls |-> Pending]
    /\ notifications = <<>>
    /\ console = <<>>
    /\ ValidateIdle
    /\ CreateIdle

\* getConfigFromPath is called: it runs up to the await of line 112.
Call(i, path) ==
    /\ pc[i] = "idle"
    /\ pc' = [pc EXCEPT ![i] = "awaiting"]
    /\ configFilePath' = [configFilePath EXCEPT ![i] = path]
    /\ UNCHANGED <<fs, result, notifications, console, validateVars, createVars>>

\* The read settles and the call runs to its end: lines 112-121.
Resume(i) ==
    /\ pc[i] = "awaiting"
    /\ LET outcome == TryBlock(fs, PathOf(i)) IN
        /\ console' = console \o outcome.console
        /\ IF outcome.kind = "return"
           THEN /\ result' = [result EXCEPT ![i] = outcome.value]
                /\ UNCHANGED notifications
           ELSE IF Catches(outcome.error)
           THEN /\ notifications' = Append(notifications,
                        [by |-> i, message |-> ErrorMessage(PathOf(i), outcome.error)])
                /\ result' = [result EXCEPT ![i] = Undefined]
           ELSE /\ result' = [result EXCEPT ![i] = Rejected(outcome.error)]
                /\ UNCHANGED notifications
    /\ pc' = [pc EXCEPT ![i] = "done"]
    /\ UNCHANGED <<fs, configFilePath, validateVars, createVars>>

Next ==
    \/ \E i \in Calls, path \in Paths : Call(i, path)
    \/ \E i \in Calls : Resume(i)

Spec == Init /\ [][Next]_vars

(***************************************************************************)
(* Vocabulary of the properties, stated on the record itself.              *)
(***************************************************************************)
HasKey(c, key) == key \in DOMAIN c.fields

HasRetiredKey(c) == \E k \in RemovedSet : HasKey(c, k)

\* The first retired key of the record in declaration order.
FirstRetiredKey(c) ==
    removedOptions[CHOOSE i \in DOMAIN removedOptions :
        /\ HasKey(c, removedOptions[i])
        /\ \A j \in 1..(i - 1) : ~HasKey(c, removedOptions[j])]

RetiredMessage(name) == name \o " config is no more supported."

WidthMessage(w) ==
    "expressionWidth config must be positive number. Received " \o ToString(w) \o " instead."

\* expressionWidth is present and not positive.
NonPositiveWidth(c) ==
    HasKey(c, "expressionWidth") /\ c.fields["expressionWidth"].n <= 0

\* The entries of paramTypes.custom, none when paramTypes or custom is absent.
CustomEntries(c) ==
    IF HasKey(c, "paramTypes") /\ HasKey(c.fields["paramTypes"], "custom")
    THEN c.fields["paramTypes"].fields["custom"].items
    ELSE <<>>

HasEmptyRegex(c) ==
    \E i \in DOMAIN CustomEntries(c) : CustomEntries(c)[i].fields["regex"] = JStr("")

\* params is a list or a mapping with a value that is not a string.
HasNonStringParam(c) ==
    /\ HasKey(c, "params")
    /\ LET params == c.fields["params"] IN
        IF params.type = "array"
        THEN \E i \in DOMAIN params.items : params.items[i].type # "string"
        ELSE \E k \in DOMAIN params.fields : params.fields[k].type # "string"

Validated == validation # Pending

ThrewConfigError(message) ==
    validation.kind = "throw" /\ validation.error = ConfigError(message)

Returned == validation.kind = "return"

(***************************************************************************)
(* Properties of validateConfig, under ValidateSpec.                       *)
(***************************************************************************)

\* C1: with no retired key, every expressionWidth W <= 0 (0 included) is
\* rejected with the ConfigError naming W; W > 0 or absent passes the check
\* (validateConfig does not fail with an expression-width error).
C1_ExpressionWidthCheck ==
    (Validated /\ ~HasRetiredKey(cfg)) =>
        IF NonPositiveWidth(cfg)
        THEN ThrewConfigError(WidthMessage(cfg.fields["expressionWidth"].n))
        ELSE validation.kind = "throw" => validation.error.message = EmptyRegexMessage

\* C2: a record holding a retired key, whatever its value, is rejected with
\* the ConfigError naming its first retired key in declaration order; a
\* record holding none is not rejected with a retired-option error.
C2_RetiredOptionCheck ==
    Validated =>
        IF HasRetiredKey(cfg)
        THEN ThrewConfigError(RetiredMessage(FirstRetiredKey(cfg)))
        ELSE \A k \in RemovedSet : ~ThrewConfigError(RetiredMessage(k))

\* C2 happens: two retired keys carrying a falsy value, the later-declared
\* one not reported.
C2_Witness ==
    /\ Validated
    /\ HasKey(cfg, "tabulateAlias") /\ HasKey(cfg, "aliasAs")
    /\ cfg.fields["aliasAs"] = JBool(FALSE)
    /\ ThrewConfigError(RetiredMessage("aliasAs"))

\* C4: a record validateConfig returns holds no retired key, has
\* expressionWidth absent or strictly positive, and has no custom entry with
\* an empty regex.
C4_PostValidationInvariant ==
    (Validated /\ Returned) =>
        /\ validation.value = cfg
        /\ ~HasRetiredKey(validation.value)
        /\ ~NonPositiveWidth(validation.value)
        /\ ~HasEmptyRegex(validation.value)

\* C5: with no retired key and expressionWidth absent or positive, a custom
\* list holding an entry with an empty regex is rejected with the
\* empty-regex ConfigError; otherwise validateConfig succeeds.
C5_EmptyRegexCheck ==
    (Validated /\ ~HasRetiredKey(cfg) /\ ~NonPositiveWidth(cfg)) =>
        IF HasEmptyRegex(cfg)
        THEN ThrewConfigError(EmptyRegexMessage)
        ELSE Returned

\* C5 happens: the empty regex is not the first entry of the list.
C5_Witness ==
    /\ Validated
    /\ Len(CustomEntries(cfg)) = 2
    /\ CustomEntries(cfg)[1].fields["regex"] = JStr("a")
    /\ CustomEntries(cfg)[2].fields["regex"] = JStr("")
    /\ ThrewConfigError(EmptyRegexMessage)

\* C6: a record that triggers no fatal check is returned; exactly one
\* warning is written when params holds a non-string value, none otherwise.
C6_ParamsCheckNonFatal ==
    (Validated /\ ~HasRetiredKey(cfg) /\ ~NonPositiveWidth(cfg) /\ ~HasEmptyRegex(cfg)) =>
        /\ Returned
        /\ validation.value = cfg
        /\ Len(validation.console) = IF HasNonStringParam(cfg) THEN 1 ELSE 0

\* C6 happens: params is a mapping with a non-string value, warned once.
C6_Witness ==
    /\ Validated /\ Returned
    /\ HasKey(cfg, "params")
    /\ cfg.fields["params"] = JObj("p" :> JStr("x") @@ "q" :> JNum(1))
    /\ validation.console = <<ParamsWarning>>

\* C9: the checks run in the order retired option, expression width, params,
\* paramTypes and stop at the first fatal one: the error is that of the
\* earliest violated fatal check, no warning is written when the retired or
\* the width check fails, and a non-string params value with an empty regex
\* warns and then fails with the empty-regex error.
C9_CheckOrder ==
    Validated =>
        IF HasRetiredKey(cfg)
        THEN /\ ThrewConfigError(RetiredMessage(FirstRetiredKey(cfg)))
             /\ validation.console = <<>>
        ELSE IF NonPositiveWidth(cfg)
        THEN /\ ThrewConfigError(WidthMessage(cfg.fields["expressionWidth"].n))
             /\ validation.console = <<>>
        ELSE /\ Len(validation.console) = IF HasNonStringParam(cfg) THEN 1 ELSE 0
             /\ IF HasEmptyRegex(cfg) THEN ThrewConfigError(EmptyRegexMessage) ELSE Returned

(***************************************************************************)
(* Properties of createConfig, under CreateSpec.                           *)
(***************************************************************************)
Assembled == assembled # Pending

IgnoreTabSettings ==
    "ignoreTabSettings" \in DOMAIN extensionSettings
    /\ extensionSettings["ignoreTabSettings"] = JBool(TRUE)

\* C7: tabWidth and useTabs both come from the overrides when
\* ignoreTabSettings is true (an absent override giving an absent tabWidth,
\* useTabs true), and both from the ambient preferences otherwise.
C7_IndentationSingleSource ==
    Assembled =>
        IF IgnoreTabSettings
        THEN /\ assembled.fields["tabWidth"] =
                    (IF "tabSizeOverride" \in DOMAIN extensionSettings
                     THEN extensionSettings["tabSizeOverride"] ELSE Undefined)
             /\ assembled.fields["useTabs"] =
                    JBool(~("insertSpacesOverride" \in DOMAIN extensionSettings
                            /\ extensionSettings["insertSpacesOverride"] = JBool(TRUE)))
        ELSE /\ assembled.fields["tabWidth"] = formattingOptions.tabSize
             /\ assembled.fields["useTabs"] = JBool(~formattingOptions.insertSpaces.b)

\* C7 happens: the flag is set and both overrides are absent, while the
\* ambient preferences say two spaces.
C7_Witness ==
    /\ Assembled
    /\ IgnoreTabSettings
    /\ "tabSizeOverride" \notin DOMAIN extensionSettings
    /\ "insertSpacesOverride" \notin DOMAIN extensionSettings
    /\ formattingOptions = [tabSize |-> JNum(2), insertSpaces |-> JBool(TRUE)]
    /\ assembled.fields["tabWidth"] = Undefined
    /\ assembled.fields["useTabs"] = JBool(TRUE)

ConfiguredDialect ==
    IF "dialect" \in DOMAIN extensionSettings
    THEN extensionSettings["dialect"] ELSE Undefined

\* C8: language is the detected dialect exactly when the dialect setting is
\* "auto-detect" or equals the detected dialect; any other setting, absent
\* included, is the language verbatim.
C8_DialectResolution ==
    Assembled =>
        /\ (assembled.fields["language"] = detectedDialect)
              <=> (ConfiguredDialect = JStr("auto-detect") \/ ConfiguredDialect = detectedDialect)
        /\ ConfiguredDialect # JStr("auto-detect")
              => assembled.fields["language"] = ConfiguredDialect

\* C8 happens: the setting is absent and so is the language.
C8_Witness ==
    /\ Assembled
    /\ "dialect" \notin DOMAIN extensionSettings
    /\ assembled.fields["language"] = Undefined

(***************************************************************************)
(* Properties of getConfigFromPath, under Spec.                            *)
(***************************************************************************)
NotificationsBy(i) == SelectSeq(notifications, LAMBDA n : n.by = i)

\* The file of a call parses and validates.
ParsesAndValidates(file) ==
    /\ file.state = "file"
    /\ file.syntax = "json"
    /\ ValidateConfig(file.value).kind = "return"

\* C3: a finished call never rejected: it resolved to a record or to
\* undefined; to undefined exactly when it showed one notification, whose
\* text is the path and the error; and to the parsed record, with no
\* notification, when the file parses and validates.
C3_LoaderNeverThrows ==
    \A i \in Calls :
        IF pc[i] = "done"
        THEN LET file == fs[configFilePath[i]]
                 shown == NotificationsBy(i)
             IN /\ result[i].type \in {"object", "array", "undefined"}
                /\ Len(shown) <= 1
                /\ (result[i] = Undefined) <=> (Len(shown) = 1)
                /\ Len(shown) = 1 =>
                      shown[1].message =
                          "Unable to read config file from path " \o configFilePath[i]
                          \o ":\n" \o ErrorToString(TryBlock(fs, configFilePath[i]).error)
                /\ ParsesAndValidates(file) => result[i] = file.value /\ shown = <<>>
        ELSE result[i] = Pending /\ NotificationsBy(i) = <<>>

\* C3 happens: a file holding the JSON text null ends in a notification.
C3_Witness ==
    \E i \in Calls :
        /\ pc[i] = "done"
        /\ fs[configFilePath[i]] = JsonFile(JNull)
        /\ result[i] = Undefined
        /\ Len(NotificationsBy(i)) = 1

\* What a call on a path produces when run alone on the file system.
Alone(path) ==
    LET outcome == TryBlock(fs, path) IN
    IF outcome.kind = "return"
    THEN [result |-> outcome.value, messages |-> <<>>]
    ELSE [result |-> Undefined, messages |-> <<ErrorMessage(path, outcome.error)>>]

MessagesBy(i) ==
    LET shown == NotificationsBy(i) IN [k \in DOMAIN shown |-> shown[k].message]

\* C10: whatever the interleaving, a finished call's result and notification
\* are those of the call run alone on its own path; two calls on the same
\* path end alike.
C10_CallsDoNotInteract ==
    \A i \in Calls :
        pc[i] = "done" =>
            /\ result[i] = Alone(configFilePath[i]).result
            /\ MessagesBy(i) = Alone(configFilePath[i]).messages
            /\ \A j \in Calls :
                  (pc[j] = "done" /\ configFilePath[j] = configFilePath[i]) =>
                      result[j] = result[i] /\ MessagesBy(j) = MessagesBy(i)

\* C10 happens: call 2 ran to its end on another path, with another
\* outcome, while call 1 is suspended in its read.
C10_Witness ==
    /\ pc[1] = "awaiting" /\ pc[2] = "done"
    /\ configFilePath[1] # configFilePath[2]
    /\ fs[configFilePath[1]] = Missing
    /\ result[2] = JObj("expressionWidth" :> JNum(80))
    /\ notifications = <<>>

====
